---------------------------- MODULE Spec2Model ----------------------------
(***************************************************************************)
(* A model of the Markdown document browser (src/app.py): the MDFileBrowser *)
(* class and the Flask routes that call it.                                 *)
(*                                                                          *)
(* Text is modelled as a sequence of characters, a character being a        *)
(* one-element string ("a", "#", " ") or a named code point ("TAB", "LF",   *)
(* "U+65E5").  Every request handler is one action: it draws its inputs,    *)
(* runs the handler's code to completion and records the request in `arg`   *)
(* and the response in `res`.                                               *)
(***************************************************************************)
EXTENDS Integers, Sequences, FiniteSets, TLC

VARIABLES
    config,   \* browser.config, the in-memory Config
    disk,     \* the content of CONFIG_FILE on disk
    saved,    \* history: the config loaded at startup or last saved with success
    op,       \* the handler that ran last
    arg,      \* its inputs
    res       \* its result

vars == <<config, disk, saved, op, arg, res>>

---------------------------------------------------------------------------
(* Characters                                                              *)

UpperSeq == <<"A", "B", "C", "D", "E", "F", "G", "H", "I", "J", "K", "L", "M",
              "N", "O", "P", "Q", "R", "S", "T", "U", "V", "W", "X", "Y", "Z">>

LowerSeq == <<"a", "b", "c", "d", "e", "f", "g", "h", "i", "j", "k", "l", "m",
              "n", "o", "p", "q", "r", "s", "t", "u", "v", "w", "x", "y", "z">>

Range(f) == {f[i] : i \in DOMAIN f}

UpperLetters == Range(UpperSeq)

LowerLetters == Range(LowerSeq)

Digits == {"0", "1", "2", "3", "4", "5", "6", "7", "8", "9"}

HexDigits == <<"0", "1", "2", "3", "4", "5", "6", "7", "8", "9",
               "a", "b", "c", "d", "e", "f">>

\* U+65E5 and U+672C are CJK ideographs, U+00E9 is e with acute (precomposed),
\* U+0301 the combining acute accent, U+FFFD the replacement character.
UnicodeLetters == {"U+65E5", "U+672C", "U+00E9"}

\* str.lower() of one character.
Lower(c) ==
    IF c \in UpperLetters
    THEN LowerSeq[CHOOSE i \in DOMAIN UpperSeq : UpperSeq[i] = c]
    ELSE c

\* str.upper() of one character.
Upper(c) ==
    IF c \in LowerLetters
    THEN UpperSeq[CHOOSE i \in DOMAIN LowerSeq : LowerSeq[i] = c]
    ELSE c

\* The regular expression class \s, and what str.strip() removes.
IsSpace(c) == c \in {" ", "TAB", "CR", "LF"}

\* The regular expression class \w of a str pattern: Unicode letters and
\* digits and the underscore; a combining mark is not a word character.
IsWord(c) == c \in UpperLetters \cup LowerLetters \cup Digits
                   \cup UnicodeLetters \cup {"_"}

\* unicodedata.normalize('NFKD', c) of one character.
NFKDChar(c) == IF c = "U+00E9" THEN <<"e", "U+0301">> ELSE <<c>>

---------------------------------------------------------------------------
(* Strings                                                                 *)

\* s.lower()
LowerStr(s) == [i \in 1..Len(s) |-> Lower(s[i])]

\* s.upper()
UpperStr(s) == [i \in 1..Len(s) |-> Upper(s[i])]

RECURSIVE NFKD(_)
\* unicodedata.normalize('NFKD', s)
NFKD(s) == IF s = <<>> THEN <<>> ELSE NFKDChar(Head(s)) \o NFKD(Tail(s))

RECURSIVE Flatten(_)
\* The texts of ss one after the other.
Flatten(ss) == IF ss = <<>> THEN <<>> ELSE Head(ss) \o Flatten(Tail(ss))

RECURSIVE Rep(_, _)
\* n copies of the text s.
Rep(s, n) == IF n = 0 THEN <<>> ELSE s \o Rep(s, n - 1)

\* s[:n]
Take(s, n) == SubSeq(s, 1, IF n < Len(s) THEN n ELSE Len(s))

\* s[n:]
Drop(s, n) == SubSeq(s, n + 1, Len(s))

\* t in s
Contains(s, t) ==
    \E i \in 0..(Len(s) - Len(t)) : SubSeq(s, i + 1, i + Len(t)) = t

StartsWith(s, t) == Len(t) <= Len(s) /\ SubSeq(s, 1, Len(t)) = t

RECURSIVE LStrip(_)
LStrip(s) == IF s # <<>> /\ IsSpace(Head(s)) THEN LStrip(Tail(s)) ELSE s

RECURSIVE RStrip(_)
RStrip(s) ==
    IF s # <<>> /\ IsSpace(s[Len(s)]) THEN RStrip(SubSeq(s, 1, Len(s) - 1)) ELSE s

\* s.strip()
Strip(s) == RStrip(LStrip(s))

RECURSIVE Split(_, _)
\* s.split(sep) for a one-character separator: always at least one piece.
Split(s, sep) ==
    IF \E i \in DOMAIN s : s[i] = sep
    THEN LET i == CHOOSE j \in DOMAIN s : s[j] = sep /\ \A k \in 1..(j - 1) : s[k] # sep
         IN  <<SubSeq(s, 1, i - 1)>> \o Split(Drop(s, i), sep)
    ELSE <<s>>

RECURSIVE Join(_, _)
\* sep.join(ss)
Join(ss, sep) ==
    IF ss = <<>> THEN <<>>
    ELSE IF Len(ss) = 1 THEN ss[1]
    ELSE ss[1] \o sep \o Join(Tail(ss), sep)

\* The set of all sequences over S of length 0..n.
SeqsUpTo(S, n) == UNION {[1..k -> S] : k \in 0..n}

---------------------------------------------------------------------------
(* generate_toc: the table of contents and its anchors                     *)

HashMax == 6

DigestLen == 8

\* Every character of the model, in a fixed order: a character's place
\* stands for its encoded value when a title is hashed.
Alphabet == UpperSeq \o LowerSeq \o
            <<"0", "1", "2", "3", "4", "5", "6", "7", "8", "9",
              "_", "-", " ", "TAB", "CR", "LF", "#", "!", ".", "*", "/",
              "U+65E5", "U+672C", "U+00E9", "U+0301", "U+FFFD",
              "\\", "<", ">">>

CharCode(c) == CHOOSE i \in DOMAIN Alphabet : Alphabet[i] = c

RECURSIVE DigestSum(_, _, _)
\* One digit's worth of the digest of s: every character and its position count.
DigestSum(s, pos, salt) ==
    IF s = <<>> THEN salt
    ELSE (CharCode(Head(s)) * (pos + salt) + DigestSum(Tail(s), pos + 1, salt)) % 16

\* hashlib.md5(title.encode()).hexdigest()[:8]: a deterministic digest of the
\* title, DigestLen lowercase hex characters.  (MD5 itself is not computed.)
Md5Hex8(title) == [i \in 1..DigestLen |-> HexDigits[DigestSum(title, 1, i) + 1]]

\* HeadingCandidates with \s* for \s+: the whitespace after the '#' run is optional.
HeadingCandidatesOptionalSpace(line) ==
    {kj \in (1..HashMax) \X (0..Len(line)) :
        /\ kj[1] + kj[2] < Len(line)
        /\ \A i \in 1..kj[1] : line[i] = "#"
        /\ \A i \in (kj[1] + 1)..(kj[1] + kj[2]) : IsSpace(line[i])
        /\ \A i \in (kj[1] + kj[2] + 1)..Len(line) : line[i] # "LF"}

\* The candidates of re.match(r'^(#{1,6})\s+(.+)$', line): k '#' characters,
\* then j characters of whitespace, then a non-empty rest without a newline.
HeadingCandidates(line) ==
    {kj \in (1..HashMax) \X (1..Len(line)) :
        /\ kj[1] + kj[2] < Len(line)
        /\ \A i \in 1..kj[1] : line[i] = "#"
        /\ \A i \in (kj[1] + 1)..(kj[1] + kj[2]) : IsSpace(line[i])
        /\ \A i \in (kj[1] + kj[2] + 1)..Len(line) : line[i] # "LF"}

\* Both quantifiers are greedy: the match is the candidate with the longest
\* run of '#' and, for that run, the longest run of whitespace.
HeadingMatch(line) ==
    CHOOSE kj \in HeadingCandidates(line) :
        \A o \in HeadingCandidates(line) :
            o[1] < kj[1] \/ (o[1] = kj[1] /\ o[2] <= kj[2])

RECURSIVE StripNonWord(_)
\* re.sub(r'[^\w\s-]', '', s)
StripNonWord(s) ==
    IF s = <<>> THEN <<>>
    ELSE (IF IsWord(Head(s)) \/ IsSpace(Head(s)) \/ Head(s) = "-"
          THEN <<Head(s)>> ELSE <<>>) \o StripNonWord(Tail(s))

IsSep(c) == IsSpace(c) \/ c = "-"

RECURSIVE SkipSeps(_)
SkipSeps(s) == IF s # <<>> /\ IsSep(Head(s)) THEN SkipSeps(Tail(s)) ELSE s

RECURSIVE Hyphenate(_)
\* re.sub(r'[-\s]+', '-', s)
Hyphenate(s) ==
    IF s = <<>> THEN <<>>
    ELSE IF IsSep(Head(s)) THEN <<"-">> \o Hyphenate(SkipSeps(s))
    ELSE <<Head(s)>> \o Hyphenate(Tail(s))

RECURSIVE StripHyphens(_)
\* s.strip('-')
StripHyphens(s) ==
    IF s # <<>> /\ Head(s) = "-" THEN StripHyphens(Tail(s))
    ELSE IF s # <<>> /\ s[Len(s)] = "-" THEN StripHyphens(SubSeq(s, 1, Len(s) - 1))
    ELSE s

HeadingPrefix == <<"h", "e", "a", "d", "i", "n", "g", "-">>

\* The anchor of one title (generate_toc, the body of "if match").
Anchor(title) ==
    LET slug == StripHyphens(Hyphenate(StripNonWord(NFKD(LowerStr(title)))))
    IN  IF slug = <<>> THEN HeadingPrefix \o Md5Hex8(title) ELSE slug

\* The entries one line contributes: none, or one.
TocOfLine(line) ==
    IF HeadingCandidates(line) = {} THEN <<>>
    ELSE LET kj == HeadingMatch(line)
             title == Drop(line, kj[1] + kj[2])
         IN  <<[level |-> kj[1], title |-> title, anchor |-> Anchor(title)]>>

RECURSIVE TocOfLines(_)
TocOfLines(lines) ==
    IF lines = <<>> THEN <<>> ELSE TocOfLine(Head(lines)) \o TocOfLines(Tail(lines))

generate_toc(content) == TocOfLines(Split(content, "LF"))

(* The contents generate_toc is applied to. *)

MaxTocLines == 2

\* Contents of one line (a run of '#', a run of whitespace, a title) and
\* contents of up to MaxTocLines lines.
TocContents ==
    LET HashCounts == {0, 1, 2, 6, 7}
        WsRuns == {<<>>, <<" ">>, <<" ", " ">>, <<"TAB">>, <<" ", "TAB">>}
        TocTitles ==
            { <<>>,
              <<"H", "e", "l", "l", "o", " ", "W", "o", "r", "l", "d">>,
              <<"!", "!", "!">>,
              <<"U+65E5", "U+672C">>,
              <<"a", "_", "b">>,
              <<"C", "a", "f", "U+00E9">>,
              <<"-", "a", "-">>,
              <<"x", " ", " ">>,
              <<"A", "#">> }
        DocLines ==
            { <<"#", " ", "H", "e", "l", "l", "o">>,
              <<"#", "#", " ", "H", "e", "l", "l", "o">>,
              <<"#", " ", "!", "!", "!">>,
              <<"t", "e", "x", "t">>,
              <<"#", " ", " ">> }
    IN  {Rep(<<"#">>, h) \o w \o t : h \in HashCounts, w \in WsRuns, t \in TocTitles}
        \cup {Join(ls, <<"LF">>) : ls \in SeqsUpTo(DocLines, MaxTocLines)}

GenerateToc ==
    /\ op = "idle"
    /\ \E content \in TocContents :
           /\ op' = "generate_toc"
           /\ arg' = [content |-> content]
           /\ res' = [toc |-> generate_toc(content)]
           /\ UNCHANGED <<config, disk, saved>>

---------------------------------------------------------------------------
(* Words: file names, patterns and path segments, as text                  *)

W ==
    [Readme_md |-> <<"R", "E", "A", "D", "M", "E", ".", "m", "d">>,
     Claude_md |-> <<"C", "L", "A", "U", "D", "E", ".", "m", "d">>,
     Star_Report_md |-> <<"*", "_", "R", "E", "P", "O", "R", "T", ".", "m", "d">>,
     Star_Plan_md |-> <<"*", "_", "P", "L", "A", "N", ".", "m", "d">>,
     Star_Summary_md |-> <<"*", "_", "S", "U", "M", "M", "A", "R", "Y", ".", "m", "d">>,
     Star_md |-> <<"*", ".", "m", "d">>,
     Star_Notes_Star |-> <<"*", "N", "O", "T", "E", "S", "*">>,
     PLAN |-> <<"P", "L", "A", "N">>,
     REPORT |-> <<"R", "E", "P", "O", "R", "T">>,
     SUMMARY |-> <<"S", "U", "M", "M", "A", "R", "Y">>,
     README_MD |-> <<"R", "E", "A", "D", "M", "E", ".", "M", "D">>,
     Star |-> <<"*">>,
     Dot_md |-> <<".", "m", "d">>,
     Home |-> <<"h", "o", "m", "e">>,
     VoiceMemo |-> <<"v", "o", "i", "c", "e", "m", "e", "m", "o", "-", "v", "2">>,
     MedicalRules |-> <<"m", "e", "d", "i", "c", "a", "l", "-", "t", "e", "x", "t", "-", "r", "u", "l", "e", "s">>,
     VoiceDic |-> <<"v", "o", "i", "c", "e", "-", "t", "o", "-", "t", "e", "x", "t", "-", "m", "a", "k", "i", "n", "g", "-", "d", "i", "c">>,
     Docs |-> <<"d", "o", "c", "s">>,
     NodeModules |-> <<"n", "o", "d", "e", "_", "m", "o", "d", "u", "l", "e", "s">>,
     Venv |-> <<"v", "e", "n", "v">>,
     Git |-> <<".", "g", "i", "t">>,
     Pycache |-> <<"_", "_", "p", "y", "c", "a", "c", "h", "e", "_", "_">>]

---------------------------------------------------------------------------
(* The Config: load_config, save_config and the /api/config route          *)

\* The default written by load_config when CONFIG_FILE does not exist.
DefaultConfig ==
    [projects |->
        << [name |-> "Voice Memo v2", path |-> <<W.Home, W.VoiceMemo>>,
            description |-> "voice memo", color |-> "#2196f3"],
           [name |-> "Medical Text Rules", path |-> <<W.Home, W.MedicalRules>>,
            description |-> "medical text", color |-> "#4caf50"],
           [name |-> "Voice-to-Text Dictionary", path |-> <<W.Home, W.VoiceDic>>,
            description |-> "dictionary", color |-> "#ff9800"] >>,
     file_patterns |->
        [important |-> <<W.Readme_md, W.Claude_md, W.Star_Report_md, W.Star_Plan_md>>,
         documentation |-> <<W.Star_Summary_md, W.Star_md>>],
     excluded_dirs |-> <<W.NodeModules, W.Venv, W.Git, W.Pycache>>,
     max_file_size_kb |-> 5000,
     recent_files_count |-> 10]

\* Other Configs a user may post or keep in CONFIG_FILE: any JSON object.
NotesConfig ==
    [projects |->
        << [name |-> "Docs", path |-> <<W.Home, W.Docs>>,
            description |-> "", color |-> "#000000"] >>,
     file_patterns |-> [important |-> <<W.Star_Notes_Star, W.PLAN>>],
     excluded_dirs |-> <<W.Docs>>,
     recent_files_count |-> 1]

StarConfig == [file_patterns |-> [important |-> <<W.Star>>]]

BareConfig == [recent_files_count |-> 2]

Configs == {DefaultConfig, NotesConfig, StarConfig, BareConfig}

\* The empty dict {}.
EmptyDict == [k \in {} |-> 0]

\* d.get(key, default)
Get(d, key, default) == IF key \in DOMAIN d THEN d[key] ELSE default

\* CONFIG_FILE: absent, holding a JSON document, or cut short by a failed write.
NoFile == [state |-> "absent"]

TornFile == [state |-> "torn"]

FileOf(c) == [state |-> "json", content |-> c]

\* load_config: the Config of the file, or the default, which is then saved.
\* A file that does not parse makes json.load raise: the process does not start.
load_config(file) == IF file = NoFile THEN DefaultConfig ELSE file.content

DiskAfterLoad(file) == IF file = NoFile THEN FileOf(DefaultConfig) ELSE file

\* __init__: the state once the module is imported.
Startup(file) ==
    /\ file.state # "torn"
    /\ config = load_config(file)
    /\ disk = DiskAfterLoad(file)
    /\ saved = load_config(file)

\* No request is being handled.
Idle ==
    /\ op = "idle"
    /\ arg = EmptyDict
    /\ res = EmptyDict

\* The response is sent and the request's data is gone: nothing is cached
\* from one request to the next.
Return ==
    /\ op # "idle"
    /\ op' = "idle"
    /\ arg' = EmptyDict
    /\ res' = EmptyDict
    /\ UNCHANGED <<config, disk, saved>>

\* save_config: open(CONFIG_FILE, 'w') truncates the file and json.dump writes
\* it.  The write either completes, or raises: before the file is opened for
\* writing (the file is as it was) or after (the file is cut short).
SaveOutcomes == {"written", "open fails", "write fails"}

save_config(file, c, outcome) ==
    CASE outcome = "written" -> FileOf(c)
      [] outcome = "open fails" -> file
      [] outcome = "write fails" -> TornFile

\* ConfigAfterPost with the assignment before the save.
ConfigAssignedFirst(old, new, outcome) == new

\* The Config after the POST branch of config(): save first, assign second,
\* so that a save that raises leaves browser.config as it was.
ConfigAfterPost(old, new, outcome) == IF outcome = "written" THEN new ELSE old

\* GET /api/config
ConfigGet ==
    /\ op = "idle"
    /\ op' = "config_get"
    /\ arg' = EmptyDict
    /\ res' = [status |-> 200, body |-> config]
    /\ UNCHANGED <<config, disk, saved>>

\* POST /api/config
ConfigPost ==
    /\ op = "idle"
    /\ \E new \in Configs, outcome \in SaveOutcomes :
           /\ op' = "config_post"
           /\ arg' = [body |-> new, outcome |-> outcome]
           /\ disk' = save_config(disk, new, outcome)
           /\ config' = ConfigAfterPost(config, new, outcome)
           /\ saved' = IF outcome = "written" THEN new ELSE saved
           /\ res' = [status |-> IF outcome = "written" THEN 200 ELSE 500]

\* GET /api/projects
GetProjects ==
    /\ op = "idle"
    /\ op' = "get_projects"
    /\ arg' = EmptyDict
    /\ res' = [status |-> 200, body |-> Get(config, "projects", <<>>)]
    /\ UNCHANGED <<config, disk, saved>>

\* The process is started again: browser = MDFileBrowser().
Restart ==
    /\ op = "idle"
    /\ disk.state = "json"
    /\ op' = "start"
    /\ arg' = EmptyDict
    /\ res' = EmptyDict
    /\ config' = load_config(disk)
    /\ saved' = load_config(disk)
    /\ UNCHANGED disk

---------------------------------------------------------------------------
(* get_file_priority                                                       *)

RECURSIVE RemoveStars(_)
\* pattern.replace("*", "")
RemoveStars(s) ==
    IF s = <<>> THEN <<>>
    ELSE (IF Head(s) = "*" THEN <<>> ELSE <<Head(s)>>) \o RemoveStars(Tail(s))

ImportantPatterns(c) == Get(Get(c, "file_patterns", EmptyDict), "important", <<>>)

\* get_file_priority with the pattern uppercased like the file name.
get_file_priority_upper(c, filename) ==
    LET upper == UpperStr(filename) IN
    IF \E i \in DOMAIN ImportantPatterns(c) :
           Contains(upper, UpperStr(RemoveStars(ImportantPatterns(c)[i])))
    THEN 1
    ELSE IF upper = W.README_MD THEN 2
    ELSE IF Contains(upper, W.REPORT) THEN 3
    ELSE IF Contains(upper, W.PLAN) THEN 4
    ELSE IF Contains(upper, W.SUMMARY) THEN 5
    ELSE 10

get_file_priority(c, filename) ==
    LET upper == UpperStr(filename) IN
    IF \E i \in DOMAIN ImportantPatterns(c) :
           Contains(upper, RemoveStars(ImportantPatterns(c)[i]))
    THEN 1
    ELSE IF upper = W.README_MD THEN 2
    ELSE IF Contains(upper, W.REPORT) THEN 3
    ELSE IF Contains(upper, W.PLAN) THEN 4
    ELSE IF Contains(upper, W.SUMMARY) THEN 5
    ELSE 10

(* The file names get_file_priority is applied to. *)

MaxFrags == 2

\* File names: up to MaxFrags fragments put together.
Filenames ==
    LET NameFrags ==
            { <<"R", "E", "A", "D", "M", "E">>, <<"r", "e", "a", "d", "m", "e">>,
              <<"R", "e", "p", "o", "r", "t">>, <<"P", "L", "A", "N">>,
              <<"s", "u", "m", "m", "a", "r", "y">>, <<"N", "O", "T", "E", "S">>,
              <<"_">>, W.Dot_md, <<".", "M", "D">> }
    IN  {Flatten(fs) : fs \in SeqsUpTo(NameFrags, MaxFrags)}

GetFilePriority ==
    /\ op = "idle"
    /\ \E filename \in Filenames :
           /\ op' = "get_file_priority"
           /\ arg' = [filename |-> filename]
           /\ res' = [priority |-> get_file_priority(config, filename)]
           /\ UNCHANGED <<config, disk, saved>>

---------------------------------------------------------------------------
(* Files: bytes and their decoding                                         *)

\* A file's content is a sequence of bytes.  A byte below 0x80 is written as
\* the ASCII character it encodes ("a", "#", "LF"); the others by their value.
\* In UTF-8, C3 A9 is U+00E9 and E6 97 A5 is U+65E5; in Shift_JIS, 93 FA is
\* U+65E5; in ISO-8859-1, E9 is U+00E9.
HighBytes == {"x93", "x97", "xA5", "xA9", "xC3", "xE6", "xE9", "xFA", "xFF"}

IsAscii(b) == b \notin HighBytes

\* UTF-8: continuation bytes are 80..BF, C2..DF start a sequence of two
\* bytes, E1..EC one of three; F8..FF never occur.
Utf8Continuation == {"x93", "x97", "xA5", "xA9"}

Utf8Need(b) == CASE b = "xC3" -> 1
                 [] b \in {"xE6", "xE9"} -> 2
                 [] OTHER -> 0

\* The character of a well-formed UTF-8 sequence.
Utf8Char(unit) ==
    CASE unit = <<"xC3", "xA9">> -> "U+00E9"
      [] unit = <<"xE6", "x97", "xA5">> -> "U+65E5"
      [] OTHER -> "U+672C"

RECURSIVE ContinuationRun(_, _)
\* How many of the first n bytes of bs are continuation bytes, from the left.
ContinuationRun(bs, n) ==
    IF n > 0 /\ bs # <<>> /\ Head(bs) \in Utf8Continuation
    THEN 1 + ContinuationRun(Tail(bs), n - 1)
    ELSE 0

\* The outcome of a decoding: the text, or the exception raised.
Ok(text) == [error |-> "none", text |-> text]

Raise(e) == [error |-> e, text |-> <<>>]

\* The text `prefix` followed by the outcome r.
Then(prefix, r) == IF r.error = "none" THEN Ok(prefix \o r.text) ELSE r

\* The length of the longest prefix of bs made of ASCII bytes.
AsciiRun(bs) ==
    IF \A i \in DOMAIN bs : IsAscii(bs[i]) THEN Len(bs)
    ELSE (CHOOSE i \in DOMAIN bs :
              ~IsAscii(bs[i]) /\ \A k \in 1..(i - 1) : IsAscii(bs[k])) - 1

RECURSIVE Utf8Decode(_, _)
\* bytes.decode('utf-8', errors=errors).  An ill-formed sequence raises under
\* errors = "strict", becomes one U+FFFD under "replace" and nothing under
\* "ignore".  A run of ASCII bytes is taken in one step.
Utf8Decode(bs, errors) ==
    IF bs = <<>> THEN Ok(<<>>)
    ELSE IF IsAscii(Head(bs))
    THEN Then(Take(bs, AsciiRun(bs)), Utf8Decode(Drop(bs, AsciiRun(bs)), errors))
    ELSE LET need == Utf8Need(Head(bs))
             have == ContinuationRun(Tail(bs), need)
         IN  IF need > 0 /\ have = need
             THEN Then(<<Utf8Char(Take(bs, 1 + need))>>,
                       Utf8Decode(Drop(bs, 1 + need), errors))
             ELSE IF errors = "strict" THEN Raise("UnicodeDecodeError")
             ELSE Then(IF errors = "replace" THEN <<"U+FFFD">> ELSE <<>>,
                       Utf8Decode(Drop(bs, 1 + have), errors))

\* Shift_JIS: 81..9F and E0..FC start a character of two bytes, whose second
\* byte is 40..7E or 80..FC; A1..DF are one-byte katakana.
RECURSIVE SjisDecode(_)
SjisDecode(bs) ==
    LET SjisLead == {"x93", "x97", "xE6", "xE9", "xFA"}
        SjisSingle == {"xA5", "xA9", "xC3"}
        SjisTrail == (UpperLetters \cup LowerLetters \cup {"_"} \cup HighBytes) \ {"xFF"}
    IN
    IF bs = <<>> THEN Ok(<<>>)
    ELSE IF IsAscii(Head(bs)) THEN Then(<<Head(bs)>>, SjisDecode(Tail(bs)))
    ELSE IF Head(bs) \in SjisSingle THEN Then(<<"U+672C">>, SjisDecode(Tail(bs)))
    ELSE IF Head(bs) \in SjisLead /\ Len(bs) >= 2 /\ bs[2] \in SjisTrail
    THEN Then(<<IF Take(bs, 2) = <<"x93", "xFA">> THEN "U+65E5" ELSE "U+672C">>,
              SjisDecode(Drop(bs, 2)))
    ELSE Raise("UnicodeDecodeError")

RECURSIVE Latin1Decode(_)
\* ISO-8859-1 gives every byte a character.
Latin1Decode(bs) ==
    IF bs = <<>> THEN <<>>
    ELSE <<IF IsAscii(Head(bs)) THEN Head(bs)
           ELSE IF Head(bs) = "xE9" THEN "U+00E9" ELSE "U+672C">>
         \o Latin1Decode(Tail(bs))

\* What chardet.detect may answer: None or the name of an encoding.  EUC-TW
\* is a name chardet knows and Python has no codec for.
Detections == {"None", "ascii", "utf-8", "ISO-8859-1", "SHIFT_JIS", "EUC-TW"}

\* raw_data.decode(encoding)
Decode(bs, encoding) ==
    CASE encoding = "utf-8" -> Utf8Decode(bs, "strict")
      [] encoding = "ascii" ->
            IF \A i \in DOMAIN bs : IsAscii(bs[i]) THEN Ok(bs)
            ELSE Raise("UnicodeDecodeError")
      [] encoding = "ISO-8859-1" -> Ok(Latin1Decode(bs))
      [] encoding = "SHIFT_JIS" -> SjisDecode(bs)
      [] OTHER -> Raise("LookupError")

RECURSIVE Newlines(_)
\* The universal newlines of a file opened in text mode: CR LF and CR are LF.
\* The text before the first CR is taken in one step.
Newlines(s) ==
    IF \A i \in DOMAIN s : s[i] # "CR" THEN s
    ELSE LET i == CHOOSE j \in DOMAIN s : s[j] = "CR" /\ \A k \in 1..(j - 1) : s[k] # "CR"
         IN  SubSeq(s, 1, i - 1) \o <<"LF">>
             \o Newlines(IF i < Len(s) /\ s[i + 1] = "LF" THEN Drop(s, i + 1) ELSE Drop(s, i))

\* f.read() of open(path, 'r', encoding='utf-8', errors=errors)
ReadText(bs, errors) ==
    LET r == Utf8Decode(bs, errors)
    IN  IF r.error = "none" THEN Ok(Newlines(r.text)) ELSE r

RECURSIVE KeepEnds(_)
KeepEnds(pieces) ==
    IF pieces = <<>> THEN <<>>
    ELSE IF Len(pieces) = 1
    THEN (IF pieces[1] = <<>> THEN <<>> ELSE <<pieces[1]>>)
    ELSE <<pieces[1] \o <<"LF">> >> \o KeepEnds(Tail(pieces))

\* f.readlines(): the lines, each with its newline.
ReadLines(text) == KeepEnds(Split(text, "LF"))

---------------------------------------------------------------------------
(* get_file_preview                                                        *)

PreviewLines == 3

PreviewExtra == 5

PreviewMax == 200

Ellipsis == <<".", ".", ".">>

PreviewErrorPrefix == <<"U+672C", "U+672C", "U+672C", " ">>

\* The window get_file_preview looks at: readlines()[:lines + 5].
PreviewWindow(text, lines) == Take(ReadLines(text), lines + PreviewExtra)

RECURSIVE Survivors(_, _)
\* The loop of get_file_preview: the lines that do not start with '#' and are
\* not blank, stripped, until `lines` of them are collected.
Survivors(content_lines, lines) ==
    IF content_lines = <<>> \/ lines <= 0 THEN <<>>
    ELSE LET line == Head(content_lines) IN
         IF ~StartsWith(line, <<"#">>) /\ Strip(line) # <<>>
         THEN <<Strip(line)>> \o Survivors(Tail(content_lines), lines - 1)
         ELSE Survivors(Tail(content_lines), lines)

\* Truncate with >= for >: a preview of exactly 200 characters is cut too.
TruncateFrom200(preview) ==
    IF Len(preview) >= PreviewMax THEN Take(preview, PreviewMax) \o Ellipsis ELSE preview

\* preview = ' '.join(preview_lines), cut to 200 characters and "..."
Truncate(preview) ==
    IF Len(preview) > PreviewMax THEN Take(preview, PreviewMax) \o Ellipsis ELSE preview

\* A file: its bytes, and whether open() succeeds on it.
get_file_preview(file, lines) ==
    IF ~file.readable THEN PreviewErrorPrefix \o <<"E", "r", "r", "n", "o">>
    ELSE LET strict == ReadText(file.bytes, "strict")
             text == IF strict.error = "none" THEN strict.text
                     ELSE ReadText(file.bytes, "replace").text
         IN  Truncate(Join(Survivors(PreviewWindow(text, lines), lines), <<" ">>))

(* The documents get_file_preview is applied to. *)

MaxSkip == 8

MaxBody == 3

\* k lines that the preview skips: headings and blank lines in turn.
PreviewDocs ==
    LET SkipLines(k) ==
            [i \in 1..k |-> IF i % 2 = 1 THEN <<"#", " ", "h">> ELSE <<" ">>]
        BodyLines ==
            { <<"a", "b">>, <<" ", "c", "d", "TAB">>, <<>>,
              Rep(<<"x">>, 66), Rep(<<"y">>, 67) }
    IN
    {Join(SkipLines(k) \o body, <<"LF">>) :
        k \in 0..MaxSkip, body \in SeqsUpTo(BodyLines, MaxBody)}
    \cup { <<"a", "CR", "LF", "b", "CR", "c", "LF">>,
           <<"xFF", "a", "LF", "xE6", "x97", "xA5">>,
           <<"xE6", "x97", "b", "LF", " ", "#", "c">> }

GetFilePreview ==
    /\ op = "idle"
    /\ \E bytes \in PreviewDocs, readable \in BOOLEAN :
           /\ op' = "get_file_preview"
           /\ arg' = [bytes |-> bytes, readable |-> readable, lines |-> PreviewLines]
           /\ res' = [preview |->
                        get_file_preview([bytes |-> bytes, readable |-> readable],
                                         PreviewLines)]
           /\ UNCHANGED <<config, disk, saved>>

---------------------------------------------------------------------------
(* get_file_info and get_project_md_files                                  *)

\* The characters of an ISO timestamp, in code point order.
IsoOrder == <<"-", ".", "0", "1", "2", "3", "4", "5", "6", "7", "8", "9", ":", "T">>

IsoRank(c) == CHOOSE i \in DOMAIN IsoOrder : IsoOrder[i] = c

RECURSIVE StrLess(_, _)
\* a < b for two str values: the first difference decides, a proper prefix
\* is the smaller.
StrLess(a, b) ==
    IF b = <<>> THEN FALSE
    ELSE IF a = <<>> THEN TRUE
    ELSE IF Head(a) # Head(b) THEN IsoRank(Head(a)) < IsoRank(Head(b))
    ELSE StrLess(Tail(a), Tail(b))

TwoDigits(n) == <<IsoOrder[((n \div 10) % 10) + 3], IsoOrder[(n % 10) + 3]>>

\* datetime.fromtimestamp(st_mtime).isoformat(): a modification time is a
\* number of half seconds; the seconds are written with two digits and the
\* fraction only when it is not zero.
Isoformat(mtime) ==
    <<"T">> \o TwoDigits(mtime \div 2) \o (IF mtime % 2 = 1 THEN <<".", "5">> ELSE <<>>)

\* file_path.name
NameOf(file) == file.parts[Len(file.parts)]

\* The record of one file.  (size_kb and modified_human, two more renderings
\* of size and modified, are left out.)
get_file_info(c, file) ==
    [name |-> NameOf(file),
     path |-> file.parts,
     relative_path |-> SubSeq(file.parts, Len(file.parts) - 1, Len(file.parts)),
     size |-> Len(file.bytes),
     modified |-> Isoformat(file.mtime),
     priority |-> get_file_priority(c, NameOf(file)),
     preview |-> get_file_preview(file, PreviewLines)]

\* The sort key (x['priority'], x['modified']) of a record, compared as
\* tuples are.
KeyLess(a, b) ==
    \/ a.priority < b.priority
    \/ a.priority = b.priority /\ StrLess(a.modified, b.modified)

RECURSIVE InsertAscending(_, _)
\* InsertDescending for an ascending sort: reverse=True is forgotten.
InsertAscending(sorted, x) ==
    IF sorted = <<>> THEN <<x>>
    ELSE IF KeyLess(x, Head(sorted)) THEN <<x>> \o sorted
    ELSE <<Head(sorted)>> \o InsertAscending(Tail(sorted), x)

RECURSIVE InsertDescending(_, _)
\* x put into the descending list: after the records that are not smaller.
InsertDescending(sorted, x) ==
    IF sorted = <<>> THEN <<x>>
    ELSE IF KeyLess(Head(sorted), x) THEN <<x>> \o sorted
    ELSE <<Head(sorted)>> \o InsertDescending(Tail(sorted), x)

RECURSIVE SortFrom(_, _)
SortFrom(sorted, rest) ==
    IF rest = <<>> THEN sorted
    ELSE SortFrom(InsertDescending(sorted, Head(rest)), Tail(rest))

\* md_files.sort(key=lambda x: (x['priority'], x['modified']), reverse=True):
\* a stable sort, records with equal keys stay in the order they came in.
SortByPriorityAndTime(md_files) == SortFrom(<<>>, md_files)

\* fnmatch of the pattern "*.md" on a file name: the case counts.
IsMd(name) == Len(name) >= Len(W.Dot_md) /\ Drop(name, Len(name) - Len(W.Dot_md)) = W.Dot_md

\* any(excluded_dir in md_file.parts for excluded_dir in excluded)
IsExcluded(c, file) ==
    \E e \in Range(Get(c, "excluded_dirs", <<>>)) : e \in Range(file.parts)

\* path.rglob("*.md"), less the excluded files, or path.glob("*.md").
Globbed(c, tree, recursive) ==
    LET Keep(file) ==
            /\ IsMd(NameOf(file))
            /\ IF recursive THEN ~IsExcluded(c, file)
               ELSE Len(file.parts) = Len(tree.root) + 1
    IN  SelectSeq(tree.files, Keep)

\* A tree is a directory path, whether it exists, and the files below it in
\* the order the directory walk yields them.
get_project_md_files(c, tree, recursive) ==
    IF ~tree.exists THEN <<>>
    ELSE LET found == Globbed(c, tree, recursive)
         IN  SortByPriorityAndTime([i \in 1..Len(found) |-> get_file_info(c, found[i])])

(* The trees the file listing is applied to. *)

MaxFiles == 3

Ticks == {3, 4}

Roots == {<<W.Home, W.VoiceMemo>>, <<W.Home, W.Docs>>}

\* Files that may be in a tree: their place below the root and their bytes.
Universe ==
    << [rel |-> <<W.Readme_md>>,
        bytes |-> <<"#", " ", "T", "LF", "h", "e", "l", "l", "o", "LF">>],
       [rel |-> <<<<"N", "O", "T", "E", "S", ".", "m", "d">>>>,
        bytes |-> <<"n", "o", "t", "e", "LF", "xFF">>],
       [rel |-> <<W.Docs, <<"P", "L", "A", "N", "_", "R", "E", "P", "O", "R", "T", ".", "m", "d">>>>,
        bytes |-> <<"p", "l", "a", "n">>],
       [rel |-> <<W.Venv, <<"N", "O", "T", "E", "S", ".", "m", "d">>>>,
        bytes |-> <<>>],
       [rel |-> <<<<"x", ".", "M", "D">>>>,
        bytes |-> <<"x">>] >>

\* The orders a walk may yield up to MaxFiles of these files in.
WalkOrders ==
    {o \in SeqsUpTo(DOMAIN Universe, MaxFiles) :
        \A i, j \in DOMAIN o : i # j => o[i] # o[j]}

TreeOf(root, exists, order, mtimes) ==
    [root |-> root,
     exists |-> exists,
     files |-> [i \in 1..Len(order) |->
                   [parts |-> root \o Universe[order[i]].rel,
                    bytes |-> Universe[order[i]].bytes,
                    mtime |-> mtimes[i],
                    readable |-> TRUE]]]

\* GET /api/files/<project_path>?recursive=...
GetFiles ==
    /\ op = "idle"
    /\ \E root \in Roots, exists \in BOOLEAN, order \in WalkOrders, recursive \in BOOLEAN :
           \E mtimes \in [1..Len(order) -> Ticks] :
               /\ exists \/ order = <<>>
               /\ op' = "get_files"
               /\ arg' = [tree |-> TreeOf(root, exists, order, mtimes),
                          recursive |-> recursive]
               /\ res' = [status |-> 200,
                          body |-> get_project_md_files(
                                       config, TreeOf(root, exists, order, mtimes), recursive)]
               /\ UNCHANGED <<config, disk, saved>>

---------------------------------------------------------------------------
(* search_in_files and the /api/search route                               *)

MatchShown == 5

LineMax == 100

\* The lines of `lines` from place i on that contain the query: for each its
\* number, counted from 1, and its text, stripped and cut to 100 characters.
RECURSIVE LineMatchesFrom(_, _, _)
LineMatchesFrom(lines, i, query_lower) ==
    IF i > Len(lines) THEN <<>>
    ELSE (IF Contains(LowerStr(lines[i]), query_lower)
          THEN <<[line_number |-> i, line |-> Take(Strip(lines[i]), LineMax)]>>
          ELSE <<>>)
         \o LineMatchesFrom(lines, i + 1, query_lower)

\* LineMatches with the index of enumerate() as the line number.
LineMatchesFromZero(lines, query_lower) ==
    LET ms == LineMatchesFrom(lines, 1, query_lower)
    IN  [k \in 1..Len(ms) |-> [line_number |-> ms[k].line_number - 1, line |-> ms[k].line]]

\* The loop "for i, line in enumerate(lines)".
LineMatches(lines, query_lower) == LineMatchesFrom(lines, 1, query_lower)

\* The body of the try for one file: nothing, or the file's record with its
\* matches.  A file that cannot be opened raises, and is passed over.
SearchFile(c, file, query_lower) ==
    IF ~file.readable THEN <<>>
    ELSE LET content == ReadText(file.bytes, "ignore").text
             matches == IF Contains(LowerStr(content), query_lower)
                        THEN LineMatches(Split(content, "LF"), query_lower)
                        ELSE <<>>
         IN  IF matches = <<>> THEN <<>>
             ELSE <<[info |-> get_file_info(c, file),
                     matches |-> Take(matches, MatchShown),
                     total_matches |-> Len(matches)]>>

\* The files of one project that the search opens: path.rglob("*.md") less
\* the excluded ones, when the path exists.
Scanned(c, fs, path) ==
    IF fs.exists /\ fs.root = path THEN Globbed(c, fs, TRUE) ELSE <<>>

RECURSIVE SearchFiles(_, _, _)
SearchFiles(c, files, query_lower) ==
    IF files = <<>> THEN <<>>
    ELSE SearchFile(c, Head(files), query_lower) \o SearchFiles(c, Tail(files), query_lower)

\* The paths searched: the one given, or those of the configured projects.
SearchPaths(c, project_path) ==
    IF project_path # <<>> THEN <<project_path>>
    ELSE LET projects == Get(c, "projects", <<>>)
         IN  [i \in 1..Len(projects) |-> projects[i].path]

RECURSIVE ScannedAll(_, _, _)
ScannedAll(c, fs, paths) ==
    IF paths = <<>> THEN <<>>
    ELSE Scanned(c, fs, Head(paths)) \o ScannedAll(c, fs, Tail(paths))

\* search_in_files: the result, and the number of files it opened.
search_in_files(c, fs, query, project_path) ==
    LET files == ScannedAll(c, fs, SearchPaths(c, project_path))
    IN  [body |-> SearchFiles(c, files, LowerStr(query)), scanned |-> Len(files)]

\* search() without its test of the query.
SearchAlways(c, fs, query, project_path) == search_in_files(c, fs, query, project_path)

\* search(): an empty or missing q is answered at once.
search(c, fs, query, project_path) ==
    IF query = <<>> THEN [body |-> <<>>, scanned |-> 0]
    ELSE search_in_files(c, fs, query, project_path)

(* The files and queries of a search. *)

MaxSearchFiles == 2

Todo7 ==
    <<"T", "O", "D", "O", " ", "a", "LF", "x", "LF", " ", " ", "t", "o", "d", "o", " ", "b", " ", "LF", "T", "o", "d", "o", "LF", "t", "O", "d", "O", "LF", "t", "o", " ", "d", "o", "LF", "t", "o", "d", "o", "!", "LF", "TAB", "t", "o", "d", "o", "LF", "T", "o", "D", "o", " ", "z", "LF", "e", "n", "d", "LF">>

SearchUniverse ==
    << [rel |-> <<W.Readme_md>>, readable |-> TRUE, bytes |-> Todo7],
       [rel |-> <<W.Docs, <<"l", "o", "n", "g", ".", "m", "d">>>>, readable |-> TRUE,
        bytes |-> <<" ", " ">> \o Rep(<<"x">>, 98) \o <<"P", "l", "a", "n", " ", "t", "o", "d", "o", " ", "LF", "p", "l", "a", "n">>],
       [rel |-> <<<<"b", "a", "d", ".", "m", "d">>>>, readable |-> TRUE,
        bytes |-> <<"a", "LF", "x", " ", "t">> \o <<"xFF", "o", "xE6", "d", "o">>],
       [rel |-> <<<<"l", "o", "c", "k", "e", "d", ".", "m", "d">>>>, readable |-> FALSE, bytes |-> <<"t", "o", "d", "o">>],
       [rel |-> <<W.Venv, <<"t", "o", "d", "o", ".", "m", "d">>>>, readable |-> TRUE, bytes |-> <<"t", "o", "d", "o">>],
       [rel |-> <<<<"n", "o", "n", "e", ".", "m", "d">>>>, readable |-> TRUE, bytes |-> <<>>] >>

Queries ==
    { <<>>, <<"t", "o", "d", "o">>, <<"T", "O", "D", "O">>, <<"P", "l", "a", "n">>, <<"x">>, <<"a", "LF", "x">> }

SearchOrders ==
    {o \in SeqsUpTo(DOMAIN SearchUniverse, MaxSearchFiles) :
        \A i, j \in DOMAIN o : i # j => o[i] # o[j]}

SearchTree(root, order) ==
    [root |-> root,
     exists |-> TRUE,
     files |-> [i \in 1..Len(order) |->
                   [parts |-> root \o SearchUniverse[order[i]].rel,
                    bytes |-> SearchUniverse[order[i]].bytes,
                    mtime |-> 4,
                    readable |-> SearchUniverse[order[i]].readable]]]

\* GET /api/search?q=...&project=...
Search ==
    /\ op = "idle"
    /\ \E query \in Queries, project_path \in {<<>>} \cup Roots,
          root \in Roots, order \in SearchOrders :
           /\ op' = "search"
           /\ arg' = [query |-> query, project_path |-> project_path,
                      fs |-> SearchTree(root, order)]
           /\ res' = [status |-> 200] @@
                     search(config, SearchTree(root, order), query, project_path)
           /\ UNCHANGED <<config, disk, saved>>

---------------------------------------------------------------------------
(* read_md_file and the /api/file route                                    *)

\* The encoding step of read_md_file with the label set before the decode
\* is tried: a failed decode keeps the detected name.
EncodingReaderLabelFirst(bytes, detected) ==
    LET strict == ReadText(bytes, "strict") IN
    IF strict.error = "none" THEN [content |-> strict.text, encoding |-> "utf-8"]
    ELSE IF detected # "None"
    THEN [content |-> IF Decode(bytes, detected).error = "none"
                      THEN Decode(bytes, detected).text
                      ELSE Utf8Decode(bytes, "replace").text,
          encoding |-> detected]
    ELSE [content |-> Utf8Decode(bytes, "replace").text, encoding |-> "utf-8 (forced)"]

\* The encoding step of read_md_file: UTF-8; else what chardet detects, when
\* it detects something and the bytes decode with it; else UTF-8 with the
\* ill-formed bytes replaced.  `detected` is the answer of chardet.detect.
EncodingReader(bytes, detected) ==
    LET strict == ReadText(bytes, "strict") IN
    IF strict.error = "none" THEN [content |-> strict.text, encoding |-> "utf-8"]
    ELSE IF detected # "None" /\ Decode(bytes, detected).error = "none"
    THEN [content |-> Decode(bytes, detected).text, encoding |-> detected]
    ELSE [content |-> Utf8Decode(bytes, "replace").text, encoding |-> "utf-8 (forced)"]

\* The tag <hN>text</hN> as it is written, N being the level.
WrittenTag(level, text) ==
    <<"<", "h", HexDigits[level + 1], ">">> \o text
        \o <<"<", "/", "h", HexDigits[level + 1], ">">>

\* A line that is a heading tag without attributes: the tag, else nothing.
RawHeading(line) ==
    IF \E n \in 1..HashMax :
           /\ Len(line) >= Len(WrittenTag(n, <<>>))
           /\ line = WrittenTag(n, SubSeq(line, 5, Len(line) - 5))
    THEN <<[level |-> CHOOSE n \in 1..HashMax :
                          line = WrittenTag(n, SubSeq(line, 5, Len(line) - 5)),
            id |-> <<>>,
            text |-> SubSeq(line, 5, Len(line) - 5)]>>
    ELSE <<>>

RECURSIVE RenderLines(_, _)
\* The heading tags of the lines: a heading line gives a tag, with an id
\* attribute when the renderer gives one; a heading tag written in the
\* document passes through as it is.
RenderLines(lines, ids) ==
    IF lines = <<>> THEN <<>>
    ELSE LET toc == TocOfLine(Head(lines))
         IN  (IF toc # <<>>
              THEN <<[level |-> toc[1].level,
                      id |-> IF ids THEN toc[1].anchor ELSE <<>>,
                      text |-> toc[1].title]>>
              ELSE RawHeading(Head(lines)))
             \o RenderLines(Tail(lines), ids)

\* markdown_renderer.convert(content), as far as headings go: the heading
\* tags of the page, in order.  The renderer is markdown2, outside this
\* repository: `ids` is whether it writes id attributes on its headings.
Render(content, ids) == RenderLines(Split(content, "LF"), ids)

RECURSIVE ExpandTemplate(_, _)
\* The replacement string of re.sub is a template: what the title part of it
\* expands to for a match m (m.whole the text matched, m.title its group 1),
\* or re.error.  A backslash before a letter that is no escape, or before
\* the number of a group the pattern has not, is an error; before anything
\* but a letter or a digit it stands for itself.  (Three octal digits after
\* a backslash, which give one character, are in no document here.)
ExpandTemplate(repl, m) ==
    IF repl = <<>> THEN Ok(<<>>)
    ELSE IF Head(repl) # "\\"
    THEN Then(<<Head(repl)>>, ExpandTemplate(Tail(repl), m))
    ELSE IF Len(repl) = 1 THEN Ok(repl)
    ELSE LET c == repl[2]
             rest == ExpandTemplate(Drop(repl, 2), m)
             digit == Len(repl) >= 3 /\ repl[3] \in Digits
         IN  CASE c = "\\" -> Then(<<"\\">>, rest)
               [] c = "n" -> Then(<<"LF">>, rest)
               [] c = "t" -> Then(<<"TAB">>, rest)
               [] c = "r" -> Then(<<"CR">>, rest)
               [] c = "a" -> Then(<<"BEL">>, rest)
               [] c = "b" -> Then(<<"BS">>, rest)
               [] c = "f" -> Then(<<"FF">>, rest)
               [] c = "v" -> Then(<<"VT">>, rest)
               [] c = "0" /\ ~digit -> Then(<<"NUL">>, rest)
               [] c = "1" /\ ~digit -> Then(m.title, rest)
               [] c = "g" /\ Take(Drop(repl, 2), 3) = <<"<", "0", ">">> ->
                      Then(m.whole, ExpandTemplate(Drop(repl, 5), m))
               [] c = "g" /\ Take(Drop(repl, 2), 3) = <<"<", "1", ">">> ->
                      Then(m.title, ExpandTemplate(Drop(repl, 5), m))
               [] c \in UpperLetters \cup LowerLetters \cup Digits -> Raise("re.error")
               [] OTHER -> Then(<<"\\", c>>, rest)

\* re.sub of one item of the table of contents: every text <hN>title</hN>
\* of the page, a tag without attributes, is replaced by the tag with
\* id="anchor" and the expansion of the title; re.error when the title is no
\* template, whether a tag matches or not.
InjectId(html, item) ==
    LET inner == ExpandTemplate(item.title,
                     [whole |-> WrittenTag(item.level, item.title),
                      title |-> item.title])
    IN  IF inner.error # "none" THEN [error |-> inner.error, html |-> html]
        ELSE [error |-> "none",
              html |-> [i \in 1..Len(html) |->
                  IF html[i].level = item.level /\ html[i].id = <<>>
                         /\ html[i].text = item.title
                  THEN [level |-> item.level, id |-> item.anchor, text |-> inner.text]
                  ELSE html[i]]]

RECURSIVE InjectIds(_, _)
\* The loop "for item in toc"; an exception ends it.
InjectIds(html, toc) ==
    IF toc = <<>> THEN [error |-> "none", html |-> html]
    ELSE LET r == InjectId(html, Head(toc))
         IN  IF r.error # "none" THEN r ELSE InjectIds(r.html, Tail(toc))

\* A file of the request: whether it exists and can be opened, and its bytes.
\* An exception on the way is caught and becomes the answer.
read_md_file(c, file, detected, ids) ==
    IF ~file.exists THEN [error |-> "not found"]
    ELSE IF ~file.readable THEN [error |-> "read error"]
    ELSE LET enc == EncodingReader(file.bytes, detected)
             toc == generate_toc(enc.content)
             injected == InjectIds(Render(enc.content, ids), toc)
         IN  IF injected.error # "none" THEN [error |-> injected.error]
             ELSE [error |-> "none",
                   content |-> enc.content,
                   html |-> injected.html,
                   toc |-> toc,
                   info |-> get_file_info(c, file),
                   encoding |-> enc.encoding]

(* The files read. *)

MaxBytes == 3

ByteSample == {"a", "x93", "x97", "xA5", "xE6", "xFA", "xFF"}

HeadingDocs ==
    { <<"#", " ", "a", "CR", "LF", "#", " ", "a">>,
      <<"#", " ", "a", "CR", "LF", "xFF">>,
      <<"#", " ", "x93", "xFA", "LF", "#", "#", " ", "b">>,
      <<"#", " ", "a", "LF", "LF">> \o WrittenTag(1, <<"a">>) \o <<"LF", "LF">>
          \o WrittenTag(1, <<"a">>),
      <<"#", " ", "a", "LF", "LF">> \o WrittenTag(2, <<"a">>) \o <<"LF", "LF">>
          \o WrittenTag(1, <<"b">>),
      <<"#", " ", "a", "\\", "q">>,
      <<"#", "#", " ", "a", "\\", "1", "LF", "#", " ", "b", "\\">>,
      <<"#", " ", "\\", "g", "<", "0", ">", "\\", "n">> }

ReadDocs == SeqsUpTo(ByteSample, MaxBytes) \cup HeadingDocs

PdfDocs == SeqsUpTo(ByteSample, 1) \cup HeadingDocs

DocumentParts == <<W.Home, W.VoiceMemo, W.Readme_md>>

FileToRead(exists, readable, bytes) ==
    [parts |-> DocumentParts, exists |-> exists, readable |-> readable,
     bytes |-> bytes, mtime |-> 4]

\* chardet.detect is called only when the bytes are not UTF-8.
DetectionsFor(bytes) ==
    IF Utf8Decode(bytes, "strict").error = "none" THEN {"None"} ELSE Detections

\* What the renderer does with headings shows only when there are some.
IdsFor(bytes) == IF bytes \in HeadingDocs THEN BOOLEAN ELSE {FALSE}

\* GET /api/file?path=...
ReadFile ==
    /\ op = "idle"
    /\ \E given \in BOOLEAN, exists \in BOOLEAN, readable \in BOOLEAN, bytes \in ReadDocs :
           \E detected \in DetectionsFor(bytes), ids \in IdsFor(bytes) :
               /\ given \/ ~exists
               /\ (exists /\ readable) \/ (bytes = <<>> /\ ~ids)
               /\ exists \/ readable
               /\ op' = "read_file"
               /\ arg' = [given |-> given, detected |-> detected, ids |-> ids,
                          file |-> FileToRead(exists, readable, bytes)]
               /\ res' = IF ~given THEN [status |-> 400, error |-> "no path"]
                         ELSE [status |-> 200] @@
                              read_md_file(config, FileToRead(exists, readable, bytes),
                                           detected, ids)
               /\ UNCHANGED <<config, disk, saved>>

---------------------------------------------------------------------------
(* generate_pdf and the /api/pdf route                                     *)

\* The replacement fields str.format finds in html_template, in order: every
\* '{' of the style sheet opens one, named by the text up to the next ':'.
TemplateFields ==
    <<"size", "font-family", "color", "color", "color", "margin", "background",
      "background", "background", "border-collapse", "border", "background",
      "background", "margin", "margin", "border-left", "color", "text-align",
      "border", "margin-top", "margin-top",
      "title", "date", "encoding", "content">>

\* html_template.format(**kwargs): the field values in order, or KeyError at
\* the first field that is not a keyword argument.
Format(fields, kwargs) ==
    IF \E i \in DOMAIN fields : fields[i] \notin DOMAIN kwargs
    THEN [error |-> "KeyError"]
    ELSE [error |-> "none", values |-> [i \in DOMAIN fields |-> kwargs[fields[i]]]]

\* Path(file_path).stem: the name without its last suffix.
Stem(name) ==
    IF \E i \in 2..Len(name) : name[i] = "."
    THEN SubSeq(name, 1, (CHOOSE i \in 2..Len(name) :
                             name[i] = "." /\ \A k \in (i + 1)..Len(name) : name[k] # ".") - 1)
    ELSE name

\* The rest of generate_pdf once the file is read: the page is made, then
\* weasyprint writes the PDF.  `weasy` is what weasyprint does.
WritePdf(page, weasy) ==
    IF page.error # "none" THEN [outcome |-> "raises", error |-> page.error]
    ELSE IF weasy # "ok" THEN [outcome |-> "raises", error |-> "weasyprint"]
    ELSE [outcome |-> "pdf", page |-> page.values]

\* The page of a document that was read.
PageOf(file_data) ==
    Format(TemplateFields,
           [title |-> file_data.info.name,
            date |-> "now",
            encoding |-> file_data.encoding,
            content |-> file_data.html])

\* MDFileBrowser.generate_pdf, given what read_md_file returned: None when
\* the file cannot be read, the PDF, or the exception raised on the way.
generate_pdf(file_data, weasy) ==
    IF file_data.error # "none" THEN [outcome |-> "None"]
    ELSE WritePdf(PageOf(file_data), weasy)

\* The route generate_pdf() once the path is known to be given.
SendFile(pdf, file) ==
    CASE pdf.outcome = "None" -> [status |-> 500, error |-> "no pdf"]
      [] pdf.outcome = "raises" -> [status |-> 500, error |-> pdf.error]
      [] pdf.outcome = "pdf" ->
           [status |-> 200, mimetype |-> "application/pdf",
            download_name |-> Stem(NameOf(file)) \o <<".", "p", "d", "f">>,
            page |-> pdf.page]

\* The route generate_pdf().
PdfResponse(c, given, file, detected, ids, weasy) ==
    IF ~given THEN [status |-> 400, error |-> "no path"]
    ELSE SendFile(generate_pdf(read_md_file(c, file, detected, ids), weasy), file)

\* GET /api/pdf?path=...
GeneratePdf ==
    /\ op = "idle"
    /\ \E given \in BOOLEAN, exists \in BOOLEAN, readable \in BOOLEAN, bytes \in PdfDocs,
          weasy \in {"ok", "raises"} :
           \E detected \in DetectionsFor(bytes), ids \in IdsFor(bytes) :
               /\ given \/ ~exists
               /\ (exists /\ readable) \/ (bytes = <<>> /\ ~ids /\ weasy = "ok")
               /\ exists \/ readable
               /\ op' = "generate_pdf"
               /\ arg' = [given |-> given, detected |-> detected, ids |-> ids,
                          weasy |-> weasy, file |-> FileToRead(exists, readable, bytes)]
               /\ res' = PdfResponse(config, given, FileToRead(exists, readable, bytes),
                                     detected, ids, weasy)
               /\ UNCHANGED <<config, disk, saved>>

---------------------------------------------------------------------------
(* Specifications                                                         *)

\* The classifier alone, under any Config.
InitPriority == (\E c \in Configs : Startup(FileOf(c))) /\ Idle

NextPriority == GetFilePriority \/ Return

SpecPriority == InitPriority /\ [][NextPriority]_vars

\* generate_toc alone.
InitToc == Startup(NoFile) /\ Idle

NextToc == GenerateToc \/ Return

SpecToc == InitToc /\ [][NextToc]_vars

\* get_file_preview alone.
InitPreview == Startup(NoFile) /\ Idle

NextPreview == GetFilePreview \/ Return

SpecPreview == InitPreview /\ [][NextPreview]_vars

\* The server: it starts with whatever CONFIG_FILE holds, then serves the
\* Config routes and the file listing, one request at a time.
Init == (\E file \in {NoFile} \cup {FileOf(c) : c \in Configs} : Startup(file)) /\ Idle

Next ==
    \/ ConfigGet
    \/ ConfigPost
    \/ GetProjects
    \/ GetFiles
    \/ Restart
    \/ Return

Spec == Init /\ [][Next]_vars

\* The search route alone, under any Config.
InitSearch == (\E c \in Configs : Startup(FileOf(c))) /\ Idle

NextSearch == Search \/ Return

SpecSearch == InitSearch /\ [][NextSearch]_vars

\* The document routes, under the default Config.
InitDocument == Startup(NoFile) /\ Idle

NextDocument == ReadFile \/ GeneratePdf \/ Return

SpecDocument == InitDocument /\ [][NextDocument]_vars

---------------------------------------------------------------------------
(* Properties of get_file_priority                                         *)

Priorities == {1, 2, 3, 4, 5, 10}

\* The rules as the specification lists them, first match first.
RuleMatches(c, filename, rule) ==
    LET up == UpperStr(filename)
        pats == ImportantPatterns(c)
    IN  CASE rule = 1 -> \E i \in DOMAIN pats : Contains(up, RemoveStars(pats[i]))
          [] rule = 2 -> LowerStr(filename) = LowerStr(W.Readme_md)
          [] rule = 3 -> Contains(up, W.REPORT)
          [] rule = 4 -> Contains(up, W.PLAN)
          [] rule = 5 -> Contains(up, W.SUMMARY)
          [] rule = 10 -> TRUE

\* C2: get_file_priority returns the value of the first rule that matches,
\* in the order important pattern (stars removed, as a substring of the
\* uppercased name) 1, README.md ignoring case 2, REPORT 3, PLAN 4,
\* SUMMARY 5, otherwise 10; so the result is one of 1, 2, 3, 4, 5, 10.
C2_FirstMatchingRule ==
    op = "get_file_priority" =>
        /\ res.priority \in Priorities
        /\ RuleMatches(config, arg.filename, res.priority)
        /\ \A r \in Priorities :
               r < res.priority => ~RuleMatches(config, arg.filename, r)

\* A name with REPORT and PLAN in it that no important pattern matches: 3.
C2_Witness ==
    /\ op = "get_file_priority"
    /\ config = DefaultConfig
    /\ Contains(UpperStr(arg.filename), W.REPORT)
    /\ Contains(UpperStr(arg.filename), W.PLAN)
    /\ res.priority = 3

---------------------------------------------------------------------------
(* Properties of generate_toc                                              *)

AnchorChars == LowerLetters \cup Digits \cup {"-"}

IsHashAnchor(a) ==
    /\ Len(a) = Len(HeadingPrefix) + DigestLen
    /\ StartsWith(a, HeadingPrefix)
    /\ \A i \in (Len(HeadingPrefix) + 1)..Len(a) : a[i] \in Range(HexDigits)

\* C3: every anchor generate_toc returns is non-empty and either made of
\* the characters a-z, 0-9 and '-' only, or 'heading-' followed by exactly
\* 8 lowercase hex characters.
C3_AnchorCharset ==
    op = "generate_toc" =>
        \A i \in DOMAIN res.toc :
            LET a == res.toc[i].anchor IN
            /\ a # <<>>
            /\ (\A j \in DOMAIN a : a[j] \in AnchorChars) \/ IsHashAnchor(a)

RECURSIVE HashRun(_)
\* The number of '#' characters a line starts with.
HashRun(line) ==
    IF line # <<>> /\ Head(line) = "#" THEN 1 + HashRun(Tail(line)) ELSE 0

RECURSIVE SpaceRun(_)
\* The number of whitespace characters a text starts with.
SpaceRun(s) == IF s # <<>> /\ IsSpace(Head(s)) THEN 1 + SpaceRun(Tail(s)) ELSE 0

\* The claim's heading: 1 to 6 '#', whitespace, then text, and no entry for
\* a line with nothing but whitespace after the '#' run.
ClaimedHeading(line) ==
    LET h == HashRun(line)
        rest == Drop(line, h)
        text == Drop(rest, SpaceRun(rest))
    IN  IF h \in 1..HashMax /\ SpaceRun(rest) >= 1 /\ text # <<>>
        THEN <<[level |-> h, title |-> text]>>
        ELSE <<>>

\* As the code has it: when only whitespace follows the '#' run, two or more
\* characters of it make a heading whose title is the last of them.
AmendedHeading(line) ==
    LET h == HashRun(line)
        rest == Drop(line, h)
        text == Drop(rest, SpaceRun(rest))
    IN  IF h \in 1..HashMax /\ SpaceRun(rest) >= 1 /\ text # <<>>
        THEN <<[level |-> h, title |-> text]>>
        ELSE IF h \in 1..HashMax /\ SpaceRun(rest) >= 2
        THEN <<[level |-> h, title |-> <<rest[Len(rest)]>>]>>
        ELSE <<>>

RECURSIVE ClaimedHeadings(_)
ClaimedHeadings(lines) ==
    IF lines = <<>> THEN <<>>
    ELSE ClaimedHeading(Head(lines)) \o ClaimedHeadings(Tail(lines))

RECURSIVE AmendedHeadings(_)
AmendedHeadings(lines) ==
    IF lines = <<>> THEN <<>>
    ELSE AmendedHeading(Head(lines)) \o AmendedHeadings(Tail(lines))

LevelsAndTitles(toc) ==
    [i \in DOMAIN toc |-> [level |-> toc[i].level, title |-> toc[i].title]]

SameTitleSameAnchor(toc) ==
    \A i, j \in DOMAIN toc : toc[i].title = toc[j].title => toc[i].anchor = toc[j].anchor

\* C8 as claimed: one entry, in document order, per line of 1 to 6 '#', at
\* least one whitespace character and non-empty text (level the number of
\* '#', title the remaining text); no entry for a line with nothing but
\* whitespace after the '#' run; equal titles carry equal anchors.
C8_HeadingsAsClaimed ==
    op = "generate_toc" =>
        /\ LevelsAndTitles(res.toc) = ClaimedHeadings(Split(arg.content, "LF"))
        /\ SameTitleSameAnchor(res.toc)

\* C8 as amended: as claimed, except that a '#' run followed by nothing but
\* two or more whitespace characters does yield an entry, whose title is the
\* last of these characters; a run followed by nothing or by one whitespace
\* character yields none.
C8_HeadingsAmended ==
    op = "generate_toc" =>
        /\ LevelsAndTitles(res.toc) = AmendedHeadings(Split(arg.content, "LF"))
        /\ SameTitleSameAnchor(res.toc)

\* Two heading lines with one title: two entries, one anchor.
C8_Witness ==
    /\ op = "generate_toc"
    /\ Len(res.toc) = 2
    /\ res.toc[1].title = res.toc[2].title
    /\ res.toc[1].level # res.toc[2].level
    /\ res.toc[1].anchor = res.toc[2].anchor

---------------------------------------------------------------------------
(* Properties of get_file_preview                                          *)

\* The text get_file_preview reads from a readable file.
PreviewText(bytes) ==
    IF Utf8Decode(bytes, "strict").error = "none"
    THEN Newlines(Utf8Decode(bytes, "strict").text)
    ELSE Newlines(Utf8Decode(bytes, "replace").text)

\* The places of the lines that are not blank and do not start with '#'.
Qualifying(lines) ==
    {i \in DOMAIN lines : Strip(lines[i]) # <<>> /\ ~StartsWith(lines[i], <<"#">>)}

\* The k-th smallest member of a set of numbers.
Nth(S, k) == CHOOSE i \in S : Cardinality({j \in S : j < i}) = k - 1

\* The first n qualifying lines, trimmed, joined by single spaces.
JoinedFirst(lines, n) ==
    LET Q == Qualifying(lines)
        m == IF Cardinality(Q) < n THEN Cardinality(Q) ELSE n
    IN  Join([k \in 1..m |-> Strip(lines[Nth(Q, k)])], <<" ">>)

CutTo200(joined) ==
    IF Len(joined) <= PreviewMax THEN joined ELSE Take(joined, PreviewMax) \o Ellipsis

\* C7 as claimed: the preview of a readable document is its first 3 lines
\* that are not blank and do not start with '#', joined by single spaces,
\* when that is at most 200 characters, and else the first 200 characters
\* of it and '...'; it is never longer than 203 characters.
C7_PreviewOfDocument ==
    (op = "get_file_preview" /\ arg.readable) =>
        /\ res.preview =
               CutTo200(JoinedFirst(Split(PreviewText(arg.bytes), "LF"), arg.lines))
        /\ Len(res.preview) <= PreviewMax + Len(Ellipsis)

\* C7 as amended: the lines are looked for among the first 8 lines of the
\* document only (lineCount + 5), and each is trimmed before it is joined.
C7_PreviewOfFirstLines ==
    (op = "get_file_preview" /\ arg.readable) =>
        /\ res.preview =
               CutTo200(JoinedFirst(Take(Split(PreviewText(arg.bytes), "LF"),
                                         arg.lines + PreviewExtra),
                                    arg.lines))
        /\ Len(res.preview) <= PreviewMax + Len(Ellipsis)

\* Three lines that join to more than 200 characters: 200 of them and '...'.
C7_Witness ==
    /\ op = "get_file_preview"
    /\ arg.readable
    /\ Cardinality(Qualifying(Split(PreviewText(arg.bytes), "LF"))) = 3
    /\ Len(res.preview) = PreviewMax + Len(Ellipsis)

---------------------------------------------------------------------------
(* Properties of the file listing                                          *)

\* C1: the records get_project_md_files returns are in descending order of
\* priority and, for equal priorities, of modification time: of two adjacent
\* records a, b, a.priority > b.priority, or the priorities are equal and
\* a.modified >= b.modified.
C1_ListingOrder ==
    op = "get_files" =>
        \A i \in 1..(Len(res.body) - 1) :
            LET a == res.body[i]
                b == res.body[i + 1]
            IN  \/ a.priority > b.priority
                \/ a.priority = b.priority /\ ~StrLess(a.modified, b.modified)

\* README.md (priority 2, older) and NOTES.md (priority 10, newer) come back
\* as NOTES.md, README.md.
C1_Witness ==
    /\ op = "get_files"
    /\ Len(res.body) = 2
    /\ res.body[1].name = <<"N", "O", "T", "E", "S", ".", "m", "d">>
    /\ res.body[1].priority = 10
    /\ res.body[2].name = W.Readme_md
    /\ res.body[2].priority = 2
    /\ StrLess(res.body[2].modified, res.body[1].modified)

---------------------------------------------------------------------------
(* Properties of the Config routes                                         *)

\* C10: GET /api/config answers the body of the latest POST that was saved,
\* or the Config loaded at startup; after a POST that was saved the Config
\* in memory and CONFIG_FILE are the posted body, whole; a POST whose save
\* raises leaves the Config in memory as it was.
C10_ConfigReplacedWhole ==
    /\ config = saved
    /\ op = "config_get" => res.body = saved
    /\ (op = "config_post" /\ arg.outcome = "written") =>
           /\ saved = arg.body
           /\ config = arg.body
           /\ disk = FileOf(arg.body)
    /\ (op = "config_post" /\ arg.outcome # "written") => res.status = 500

\* A GET after a POST that was saved and a later one whose write failed.
C10_Witness ==
    /\ op = "config_get"
    /\ disk = TornFile
    /\ res.body = NotesConfig

---------------------------------------------------------------------------
(* Properties of the search                                                *)

\* The lines of a file as the search reads it.
SearchLines(file) == Split(Newlines(Utf8Decode(file.bytes, "ignore").text), "LF")

\* The numbers of the lines that contain the query, whatever the case.
MatchingLines(file, query) ==
    {i \in DOMAIN SearchLines(file) :
        Contains(LowerStr(SearchLines(file)[i]), LowerStr(query))}

\* The first (at most 5) matching lines, in increasing line number.
FirstMatches(file, query) ==
    LET M == MatchingLines(file, query)
        n == IF Cardinality(M) < MatchShown THEN Cardinality(M) ELSE MatchShown
    IN  [k \in 1..n |->
            [line_number |-> Nth(M, k),
             line |-> Take(Strip(SearchLines(file)[Nth(M, k)]), LineMax)]]

\* Whether the request searches the tree of the file system.
IsSearched(c, a) ==
    \/ a.project_path = a.fs.root
    \/ /\ a.project_path = <<>>
       /\ \E i \in DOMAIN Get(c, "projects", <<>>) : c.projects[i].path = a.fs.root

\* The files the search scans: the readable .md files of a searched tree
\* that are in no excluded directory.
ScannedFiles(c, a) ==
    {f \in Range(a.fs.files) :
        IsSearched(c, a) /\ IsMd(NameOf(f)) /\ ~IsExcluded(c, f) /\ f.readable}

\* C4: for a non-empty query, every file returned carries the number of its
\* lines that contain the query, whatever the case, as total_matches, and
\* the first min(5, total_matches) of them as matches, in increasing line
\* number (from 1), each stripped and cut to 100 characters; and a scanned
\* file is returned if and only if one of its lines contains the query.
C4_MatchesOfAFile ==
    (op = "search" /\ arg.query # <<>>) =>
        /\ \A k \in DOMAIN res.body :
               \E f \in ScannedFiles(config, arg) :
                   /\ f.parts = res.body[k].info.path
                   /\ res.body[k].total_matches = Cardinality(MatchingLines(f, arg.query))
                   /\ res.body[k].matches = FirstMatches(f, arg.query)
        /\ \A f \in ScannedFiles(config, arg) :
               (\E k \in DOMAIN res.body : res.body[k].info.path = f.parts)
                   <=> MatchingLines(f, arg.query) # {}

\* Seven matching lines: five matches, total_matches 7.
C4_Witness ==
    /\ op = "search"
    /\ \E k \in DOMAIN res.body :
           /\ res.body[k].total_matches = 7
           /\ Len(res.body[k].matches) = MatchShown
           /\ res.body[k].matches[MatchShown].line_number = 7

\* C5: a search with the empty query returns the empty sequence, whatever
\* the projects and the files, and opens no file.
C5_EmptyQuery ==
    (op = "search" /\ arg.query = <<>>) =>
        /\ res.body = <<>>
        /\ res.scanned = 0

\* An empty query on a tree whose files would all match.
C5_Witness ==
    /\ op = "search"
    /\ arg.query = <<>>
    /\ arg.project_path = arg.fs.root
    /\ \E i \in DOMAIN arg.fs.files : arg.fs.files[i].bytes = Todo7
    /\ res.body = <<>>

---------------------------------------------------------------------------
(* Properties of the document routes                                       *)

\* Whether the bytes are well-formed UTF-8: decoding replaces nothing.
\* (No file of the model holds an encoded U+FFFD.)
IsUtf8(bytes) == "U+FFFD" \notin Range(Utf8Decode(bytes, "replace").text)

\* Whether chardet named an encoding and the bytes decode with it.
DetectedDecodes(bytes, detected) ==
    detected # "None" /\ Decode(bytes, detected).error = "none"

\* What the encoding step of the request of this state gave.
EncodingStep == EncodingReader(arg.file.bytes, arg.detected)

\* C6: for an existing file the encoding step of read_md_file never fails
\* and yields a text and a label that is not empty: 'utf-8' exactly when the
\* bytes are well-formed UTF-8; otherwise the detected name exactly when
\* something was detected and the bytes decode with it; otherwise
\* 'utf-8 (forced)'.  The answer carries that text and that label, unless a
\* later step of read_md_file (the id injection) raised.
C6_EncodingFallback ==
    (op = "read_file" /\ arg.given /\ arg.file.exists /\ arg.file.readable) =>
        LET bytes == arg.file.bytes IN
        /\ res.error \in {"none", "re.error"}
        /\ res.error = "none" =>
               res.content = EncodingStep.content /\ res.encoding = EncodingStep.encoding
        /\ EncodingStep.encoding # ""
        /\ EncodingStep.content \in Seq(Range(Alphabet))
        /\ EncodingStep.encoding =
               IF IsUtf8(bytes) THEN "utf-8"
               ELSE IF DetectedDecodes(bytes, arg.detected) THEN arg.detected
               ELSE "utf-8 (forced)"
        /\ IsUtf8(bytes) =>
               EncodingStep.content = Newlines(Utf8Decode(bytes, "strict").text)
        /\ (~IsUtf8(bytes) /\ DetectedDecodes(bytes, arg.detected)) =>
               EncodingStep.content = Decode(bytes, arg.detected).text
        /\ (~IsUtf8(bytes) /\ ~DetectedDecodes(bytes, arg.detected)) =>
               EncodingStep.content = Utf8Decode(bytes, "replace").text

\* An encoding was detected and the bytes do not decode with it: forced.
C6_Witness ==
    /\ op = "read_file"
    /\ arg.detected = "SHIFT_JIS"
    /\ res.error = "none"
    /\ res.encoding = "utf-8 (forced)"
    /\ "U+FFFD" \in Range(res.content)

\* Whether reading the file of a request gives a document.
ReadSucceeds(a) == a.file.exists /\ a.file.readable

\* C9: GET /api/pdf answers 400 when the path is missing; 500 when the file
\* cannot be read or rendering raises; and, for a file that is read and a
\* renderer that succeeds, 200 with the PDF as an attachment named
\* <stem>.pdf, made from the page template filled with the file's name, the
\* date, the encoding and the HTML.
C9_PdfOutcome ==
    op = "generate_pdf" =>
        /\ ~arg.given => res.status = 400
        /\ (arg.given /\ (~ReadSucceeds(arg) \/ arg.weasy = "raises")) => res.status = 500
        /\ (arg.given /\ ReadSucceeds(arg) /\ arg.weasy = "ok") =>
               /\ res.status = 200
               /\ res.mimetype = "application/pdf"
               /\ res.download_name = <<"R", "E", "A", "D", "M", "E", ".", "p", "d", "f">>

---------------------------------------------------------------------------
(* Properties of the id injection                                          *)

\* Whether a tag is the text <hN>title</hN> of an entry.
IsTagOf(tag, item) ==
    tag.level = item.level /\ tag.id = <<>> /\ tag.text = item.title

\* The page with the first tag of the entry, and no other, given the
\* entry's anchor as id; the page itself when the entry has no tag.
FirstTagRewritten(html, item) ==
    [i \in 1..Len(html) |->
        IF IsTagOf(html[i], item) /\ \A k \in 1..(i - 1) : ~IsTagOf(html[k], item)
        THEN [html[i] EXCEPT !.id = item.anchor]
        ELSE html[i]]

RECURSIVE FirstTagsRewritten(_, _)
\* The same for every entry of the table of contents, in order.
FirstTagsRewritten(html, toc) ==
    IF toc = <<>> THEN html
    ELSE FirstTagsRewritten(FirstTagRewritten(html, Head(toc)), Tail(toc))

\* C11: reading a document, for each entry of its table of contents only the
\* first heading tag of the entry's level whose text is the entry's title is
\* rewritten, to carry id="<anchor>"; every other tag, a later one of the
\* same level and text included, is unchanged, and an entry without a tag
\* leaves the page unchanged.
C11_FirstTagOnly ==
    (op = "read_file" /\ arg.given /\ arg.file.exists /\ arg.file.readable) =>
        /\ res.error = "none"
        /\ res.html = FirstTagsRewritten(Render(EncodingStep.content, arg.ids),
                                         generate_toc(EncodingStep.content))

=============================================================================
